---- MODULE Spec2Model ----
(***************************************************************************)
(* Model of node-speex-resampler (src/app/index.js).                       *)
(*                                                                         *)
(* The file holds two builds of the same module: the float32 build         *)
(* (lines 1-134) and the int16 build (lines 135-267).  Each has a          *)
(* module-level handle speexModule set once by a promise, an engine class  *)
(* SpeexResampler with processChunk, and a stream adapter                  *)
(* SpeexResamplerTransform with _transform.                                *)
(*                                                                         *)
(* The adapter never inspects byte values, only lengths, so every pushed   *)
(* byte is tagged with its instance and its position in that instance's    *)
(* stream: loss, duplication and reordering of bytes are all visible.      *)
(***************************************************************************)
EXTENDS Integers, Sequences, FiniteSets, TLC

\* ---------------------------------------------------------------- bounds
MaxChannels == 2
MaxChunkLen == 4
MaxPushed == 4
MaxPtr == 12
MaxLeaked == 2
MaxFed == 3
MaxWritten == 1

\* ------------------------------------------------------ program constants
Float32BytesPerElement == 4
Uint16BytesPerElement == 2
Uint32BytesPerElement == 4
ErrCellBytes == 4
DefaultQuality == 7
MaxQuality == 10
UnsetPtr == -1
UnsetSize == -1
NullPtr == 0

Variants == {"float32", "int16"}
Instances == {1, 2}

NotReadyMsg == "You need to wait for SpeexResampler.initPromise before calling this method"
MisalignedMsg == "Chunk length should be a multiple of channels * 2 bytes"
NoError == "none"
CallbackThrown == "exception thrown by callback"

\* error codes of the native library: 0 is success
ErrCodes == {0, 1, 3}
\* the codes the processing primitive returns: success, or 1 when the
\* resampler's tables could not be allocated
ProcErrCodes == ErrCodes \ {3}

speex_resampler_strerror(errNum) ==
    IF errNum = 1 THEN "Memory allocation failed."
    ELSE IF errNum = 3 THEN "Invalid argument."
    ELSE "Success."

VARIABLES variant, cfg, speexModule, eng, heap, alignementBuffer,
          pushed, handed, last, kept, tally

vars == <<variant, cfg, speexModule, eng, heap, alignementBuffer,
          pushed, handed, last, kept, tally>>

\* ------------------------------------------------------------- helpers
EMPTY_BUFFER == << >>

Slice(s, from, to) == SubSeq(s, from + 1, to)

CeilDiv(a, b) == (a + b - 1) \div b

\* the k-th byte (from 0) of instance i's input stream
ByteTag(i, k) == 16 * (i - 1) + k

NewChunk(i, start, len) == [k \in 1..len |-> ByteTag(i, start + k - 1)]

\* sample width the engine's processChunk checks and divides by
EngineSampleWidth(v) ==
    IF v = "float32" THEN Float32BytesPerElement ELSE Uint16BytesPerElement

\* sample width the adapter's _transform aligns to
AdapterSampleWidth(v) == Uint16BytesPerElement

\* ---------------------------------------------------------- native heap
\* live: size of every allocated block; bytes: the bytes written so far at
\* the start of each block; freed: addresses given back
EmptyHeap == [live |-> << >>, bytes |-> << >>, freed |-> {}, nextPtr |-> 1]

Malloc(h, size) ==
    [ptr  |-> h.nextPtr,
     heap |-> [live    |-> [p \in DOMAIN h.live \cup {h.nextPtr} |->
                               IF p = h.nextPtr THEN size ELSE h.live[p]],
               bytes   |-> [p \in DOMAIN h.live \cup {h.nextPtr} |->
                               IF p = h.nextPtr THEN << >> ELSE h.bytes[p]],
               freed   |-> h.freed,
               nextPtr |-> h.nextPtr + 1]]

Free(h, ptr) ==
    [live    |-> [p \in DOMAIN h.live \ {ptr} |-> h.live[p]],
     bytes   |-> [p \in DOMAIN h.live \ {ptr} |-> h.bytes[p]],
     freed   |-> h.freed \cup {ptr},
     nextPtr |-> h.nextPtr]

\* what a read finds in memory never written, and in a block given back
Uninitialised == -1
Dangling == -2

\* HEAPU8 read of n bytes at ptr
HeapSlice(h, ptr, n) ==
    IF ptr \in DOMAIN h.live
    THEN [k \in 1..n |-> IF k <= Len(h.bytes[ptr]) THEN h.bytes[ptr][k]
                         ELSE Uninitialised]
    ELSE [k \in 1..n |-> Dangling]

\* the processing primitive stores n bytes of output at ptr
WriteOutput(h, ptr, n, fill) ==
    LET old == h.bytes[ptr]
        m   == IF n > Len(old) THEN n ELSE Len(old)
    IN  [h EXCEPT !.bytes[ptr] = [k \in 1..m |-> IF k <= n THEN fill ELSE old[k]]]

\* the output derives from the input: it is marked with the first input byte
OutputFill(chunk) == IF Len(chunk) > 0 THEN chunk[1] ELSE 0

\* a Buffer: its own bytes, or a window on the heap
NoBuffer == [view |-> FALSE, ptr |-> NullPtr, len |-> 0, data |-> << >>]

BufferContents(b, h) == IF b.view THEN HeapSlice(h, b.ptr, b.len) ELSE b.data

\* mutant: the returned Buffer points into the output scratch
CopyOut_View(h, ptr, n) == [view |-> TRUE, ptr |-> ptr, len |-> n, data |-> << >>]

\* line 84 / 218: Buffer.from(HEAPU8.slice(ptr, ptr + n).buffer)
CopyOut(h, ptr, n) ==
    [view |-> FALSE, ptr |-> NullPtr, len |-> n, data |-> HeapSlice(h, ptr, n)]

\* ------------------------------------------------------------- engine
NewSpeexResampler ==
    [resamplerPtr  |-> NullPtr,
     inBufferPtr   |-> UnsetPtr,
     inBufferSize  |-> UnsetSize,
     outBufferPtr  |-> UnsetPtr,
     outBufferSize |-> UnsetSize,
     inLengthPtr   |-> UnsetPtr,
     outLengthPtr  |-> UnsetPtr]

\* creation primitive: a fresh handle on success, NULL on failure
speex_resampler_init(h, errNum) ==
    IF errNum = 0
    THEN [ptr |-> h.nextPtr, heap |-> Malloc(h, 0).heap]
    ELSE [ptr |-> NullPtr, heap |-> h]

\* the arguments of a creation that did not take place
NoInitArgs == << >>

\* line 47 / 181: the arguments given to the creation primitive
InitArgs(c) == <<c.channels, c.inRate, c.outRate, c.quality>>

\* lines 45-54 / 179-188, after the creation primitive has run with args
Created(e, h, initErr, args) ==
    LET m1 == Malloc(h, ErrCellBytes)
        r  == speex_resampler_init(m1.heap, initErr)
        e1 == [e EXCEPT !.resamplerPtr = r.ptr]
    IN  IF initErr # 0
        THEN [eng |-> e1, heap |-> r.heap,
              err |-> speex_resampler_strerror(initErr), initErrNum |-> initErr,
              initCalled |-> TRUE, initArgs |-> args]
        ELSE LET m2 == Malloc(r.heap, Uint32BytesPerElement)
                 m3 == Malloc(m2.heap, Uint32BytesPerElement)
             IN  [eng |-> [e1 EXCEPT !.inLengthPtr = m2.ptr,
                                     !.outLengthPtr = m3.ptr],
                  heap |-> m3.heap, err |-> NoError, initErrNum |-> 0,
                  initCalled |-> TRUE, initArgs |-> args]

\* mutant: the quality the caller configured is not passed on
EnsureResampler_DefaultQuality(c, e, h, initErr) ==
    IF e.resamplerPtr # NullPtr
    THEN [eng |-> e, heap |-> h, err |-> NoError, initErrNum |-> 0,
          initCalled |-> FALSE, initArgs |-> NoInitArgs]
    ELSE Created(e, h, initErr,
                 <<c.channels, c.inRate, c.outRate, DefaultQuality>>)

\* mutant: a failed creation is not reported and the call goes on
EnsureResampler_IgnoreError(c, e, h, initErr) ==
    IF e.resamplerPtr # NullPtr
    THEN [eng |-> e, heap |-> h, err |-> NoError, initErrNum |-> 0,
          initCalled |-> FALSE, initArgs |-> NoInitArgs]
    ELSE [Created(e, h, initErr, InitArgs(c)) EXCEPT !.err = NoError]

\* lines 45-54 / 179-188
EnsureResampler(c, e, h, initErr) ==
    IF e.resamplerPtr # NullPtr
    THEN [eng |-> e, heap |-> h, err |-> NoError, initErrNum |-> 0,
          initCalled |-> FALSE, initArgs |-> NoInitArgs]
    ELSE Created(e, h, initErr, InitArgs(c))

\* mutant: the input scratch is reallocated whenever the size differs
GrowInBuffer_Resize(e, h, len) ==
    IF e.inBufferSize # len
    THEN LET h1 == IF e.inBufferPtr # UnsetPtr THEN Free(h, e.inBufferPtr) ELSE h
             m  == Malloc(h1, len)
         IN  [eng |-> [e EXCEPT !.inBufferPtr = m.ptr, !.inBufferSize = len],
              heap |-> m.heap]
    ELSE [eng |-> e, heap |-> h]

\* lines 56-62 / 190-196
GrowInBuffer(e, h, len) ==
    IF e.inBufferSize < len
    THEN LET h1 == IF e.inBufferPtr # UnsetPtr THEN Free(h, e.inBufferPtr) ELSE h
             m  == Malloc(h1, len)
         IN  [eng |-> [e EXCEPT !.inBufferPtr = m.ptr, !.inBufferSize = len],
              heap |-> m.heap]
    ELSE [eng |-> e, heap |-> h]

\* line 64 / 198
OutBufferLengthTarget(c, len) == CeilDiv(len * c.outRate, c.inRate)

\* mutant: a live block that is large enough is taken as output scratch,
\* whoever allocated it
GrowOutBuffer_Shared(e, h, target) ==
    IF e.outBufferSize < target
    THEN LET fit == {p \in DOMAIN h.live :
                        h.live[p] >= target /\ p # e.outBufferPtr}
         IN  IF fit # {}
             THEN [eng |-> [e EXCEPT !.outBufferPtr = CHOOSE p \in fit : TRUE,
                                     !.outBufferSize = target],
                   heap |-> h]
             ELSE LET m == Malloc(h, target)
                  IN  [eng |-> [e EXCEPT !.outBufferPtr = m.ptr,
                                         !.outBufferSize = target],
                       heap |-> m.heap]
    ELSE [eng |-> e, heap |-> h]

\* mutant: the output scratch is reallocated also when it is just large enough
GrowOutBuffer_NotStrict(e, h, target) ==
    IF e.outBufferSize <= target
    THEN LET h1 == IF e.outBufferPtr # UnsetPtr THEN Free(h, e.outBufferPtr) ELSE h
             m  == Malloc(h1, target)
         IN  [eng |-> [e EXCEPT !.outBufferPtr = m.ptr, !.outBufferSize = target],
              heap |-> m.heap]
    ELSE [eng |-> e, heap |-> h]

\* lines 65-71 / 199-205
GrowOutBuffer(e, h, target) ==
    IF e.outBufferSize < target
    THEN LET h1 == IF e.outBufferPtr # UnsetPtr THEN Free(h, e.outBufferPtr) ELSE h
             m  == Malloc(h1, target)
         IN  [eng |-> [e EXCEPT !.outBufferPtr = m.ptr, !.outBufferSize = target],
              heap |-> m.heap]
    ELSE [eng |-> e, heap |-> h]

\* line 73 / 207: per-channel input sample count written to the length cell
InSamplesPerChannel(v, c, len) == (len \div c.channels) \div EngineSampleWidth(v)

\* mutant: the capacity is rounded up to a whole frame
OutCapacity_RoundUp(v, c, e) ==
    CeilDiv(e.outBufferSize, c.channels * EngineSampleWidth(v))

\* line 77 / 211: per-channel output capacity, stored as a 32-bit integer
OutCapacity(v, c, e) == e.outBufferSize \div (c.channels * EngineSampleWidth(v))

\* mutant: the engine checks against the 16-bit width in both builds
Misaligned_AdapterWidth(v, c, chunk) ==
    Len(chunk) % (c.channels * AdapterSampleWidth(v)) # 0

\* line 42 / 176
Misaligned(v, c, chunk) ==
    Len(chunk) % (c.channels * EngineSampleWidth(v)) # 0

\* mutant: the returned length leaves out the channel count
OutputLength_PerChannel(v, c, written) == written * EngineSampleWidth(v)

\* line 84 / 218: byte length of the buffer returned for `written` samples
\* per channel
OutputLength(v, c, written) == written * c.channels * EngineSampleWidth(v)

Thrown(e, h, msg, init, prim) ==
    [eng |-> e, heap |-> h, err |-> msg, outLen |-> -1, written |-> -1,
     out |-> NoBuffer, initErrNum |-> 0, procErrNum |-> 0,
     initCalled |-> init, initArgs |-> NoInitArgs, primCalled |-> prim,
     inSamples |-> -1, outCap |-> -1]

\* line 82-84 / 216-218: the call returns the bytes the primitive stored
FinishChunk(e, h, written, nOut, initCalled, n, cap) ==
    [eng |-> e, heap |-> h, err |-> NoError,
     outLen |-> nOut, written |-> written,
     out |-> CopyOut(h, e.outBufferPtr, nOut),
     initErrNum |-> 0, procErrNum |-> 0,
     initCalled |-> initCalled, initArgs |-> NoInitArgs, primCalled |-> TRUE,
     inSamples |-> n, outCap |-> cap]

\* lines 55-71 / 189-205: the input scratch, then the output scratch
GrowOutAfterIn(c, s2, len) ==
    GrowOutBuffer(s2.eng, s2.heap, OutBufferLengthTarget(c, len))

GrowBoth(c, e, h, len) == GrowOutAfterIn(c, GrowInBuffer(e, h, len), len)

\* mutant: a processing error makes the engine forget its handle
RunPrimitive_DropHandle(v, c, s3, chunk, initCalled, procErr, written, n, cap, nOut) ==
    IF procErr # 0
    THEN [Thrown([s3.eng EXCEPT !.resamplerPtr = NullPtr], s3.heap,
                 speex_resampler_strerror(procErr), initCalled, TRUE)
            EXCEPT !.procErrNum = procErr, !.inSamples = n, !.outCap = cap]
    ELSE FinishChunk(s3.eng, WriteOutput(s3.heap, s3.eng.outBufferPtr, nOut,
                                         OutputFill(chunk)),
                     written, nOut, initCalled, n, cap)

\* lines 72-84 / 206-218: the length cells are set, the primitive runs and
\* the output is copied out; s3 is the engine and heap after both resizes
RunPrimitive(v, c, s3, chunk, initCalled, procErr, written, n, cap, nOut) ==
    IF procErr # 0
    THEN [Thrown(s3.eng, s3.heap, speex_resampler_strerror(procErr),
                 initCalled, TRUE)
            EXCEPT !.procErrNum = procErr, !.inSamples = n, !.outCap = cap]
    ELSE FinishChunk(s3.eng, WriteOutput(s3.heap, s3.eng.outBufferPtr, nOut,
                                         OutputFill(chunk)),
                     written, nOut, initCalled, n, cap)

RunAfterResize(v, c, s3, chunk, initCalled, procErr, written) ==
    RunPrimitive(v, c, s3, chunk, initCalled, procErr, written,
                 InSamplesPerChannel(v, c, Len(chunk)),
                 OutCapacity(v, c, s3.eng),
                 OutputLength(v, c, written))

\* lines 55-71 / 189-205: both scratch buffers are resized; s1 is the engine
\* and heap after the lazy creation
ResizeAndRun(v, c, s1, chunk, procErr, written) ==
    RunAfterResize(v, c,
                   GrowBoth(c, s1.eng, s1.heap, Len(chunk)),
                   chunk, s1.initCalled, procErr, written)

\* lines 49-51 / 183-185: a creation error ends the call
AfterEnsure(v, c, s1, chunk, procErr, written) ==
    IF s1.err # NoError
    THEN [Thrown(s1.eng, s1.heap, s1.err, TRUE, FALSE)
            EXCEPT !.initErrNum = s1.initErrNum, !.initArgs = s1.initArgs]
    ELSE [ResizeAndRun(v, c, s1, chunk, procErr, written)
            EXCEPT !.initArgs = s1.initArgs]

\* lines 45-84 / 179-218: processChunk past its two checks.  initErr, procErr
\* and written are what the native library reports for this call.
processAligned(v, c, e, h, chunk, initErr, procErr, written) ==
    AfterEnsure(v, c, EnsureResampler(c, e, h, initErr), chunk, procErr, written)

\* mutant: the alignment check runs before the readiness check
processChunk_AlignFirst(v, c, e, h, ready, chunk, initErr, procErr, written) ==
    IF Misaligned(v, c, chunk) THEN Thrown(e, h, MisalignedMsg, FALSE, FALSE)
    ELSE IF ~ready THEN Thrown(e, h, NotReadyMsg, FALSE, FALSE)
    ELSE processAligned(v, c, e, h, chunk, initErr, procErr, written)

\* lines 37-85 / 171-219
processChunk(v, c, e, h, ready, chunk, initErr, procErr, written) ==
    IF ~ready THEN Thrown(e, h, NotReadyMsg, FALSE, FALSE)
    ELSE IF Misaligned(v, c, chunk) THEN Thrown(e, h, MisalignedMsg, FALSE, FALSE)
    ELSE processAligned(v, c, e, h, chunk, initErr, procErr, written)

\* what the native library may report for a call on engine e with this chunk:
\* the creation code when creation is attempted, the processing code when the
\* primitive is reached, and the written count, at most the capacity offered
\* the codes the creation primitive may report for a configuration: an
\* allocation may always fail, and a quality outside 0..MaxQuality is an
\* invalid argument
InitErrCodes(c) ==
    IF c.quality < 0 \/ c.quality > MaxQuality THEN {3} ELSE ErrCodes \ {3}

InitErrChoices(v, c, e, ready, chunk) ==
    IF ready /\ ~Misaligned(v, c, chunk) /\ e.resamplerPtr = NullPtr
    THEN InitErrCodes(c) ELSE {0}

ProcErrChoices(v, c, e, ready, chunk, initErr) ==
    IF ready /\ ~Misaligned(v, c, chunk) /\ initErr = 0 THEN ProcErrCodes ELSE {0}

WrittenChoices(v, c, e, ready, chunk, initErr, procErr) ==
    IF ready /\ ~Misaligned(v, c, chunk) /\ initErr = 0 /\ procErr = 0
    THEN LET t    == OutBufferLengthTarget(c, Len(chunk))
             size == IF e.outBufferSize < t THEN t ELSE e.outBufferSize
             cap  == size \div (c.channels * EngineSampleWidth(v))
         IN  0 .. (IF cap < MaxWritten THEN cap ELSE MaxWritten)
    ELSE {0}

\* the blocks engine e holds a pointer to
Owned(e) ==
    {e.resamplerPtr, e.inLengthPtr, e.outLengthPtr, e.inBufferPtr, e.outBufferPtr}

\* the live blocks of heap h that no engine of es holds a pointer to
Leaked(h, es) == DOMAIN h.live \ UNION {Owned(es[i]) : i \in Instances}

\* ------------------------------------------------------------ adapter
\* mutant: the carry is cleared but not prepended
Combined_DropCarry(carry, chunk) == chunk

\* lines 108-115 / 242-249
Combined(carry, chunk) == IF Len(carry) > 0 THEN carry \o chunk ELSE chunk

\* line 118 / 252
ExtraneousBytesCount(v, c, combined) ==
    Len(combined) % (c.channels * AdapterSampleWidth(v))

\* mutant: slice(extraneousBytesCount) instead of slice(length - extraneousBytesCount)
NextAlignementBuffer_SliceFromCount(v, c, combined) ==
    LET x == Len(combined) % (c.channels * AdapterSampleWidth(v))
    IN  IF x # 0 THEN Slice(combined, x, Len(combined)) ELSE EMPTY_BUFFER

\* mutant: the tail is kept only when a whole frame precedes it
NextAlignementBuffer_Dropped(v, c, combined) ==
    LET x == Len(combined) % (c.channels * AdapterSampleWidth(v))
    IN  IF x # 0 /\ Len(combined) > x
        THEN Slice(combined, Len(combined) - x, Len(combined))
        ELSE EMPTY_BUFFER

\* lines 119-122 / 253-256: the carry kept for the next push
NextAlignementBuffer(v, c, combined) ==
    LET x == ExtraneousBytesCount(v, c, combined)
    IN  IF x # 0 THEN Slice(combined, Len(combined) - x, Len(combined))
        ELSE EMPTY_BUFFER

\* lines 119-122 / 253-256: the buffer given to the engine
ChunkToProcess(v, c, combined) ==
    LET x == ExtraneousBytesCount(v, c, combined)
    IN  IF x # 0 THEN Slice(combined, 0, Len(combined) - x) ELSE combined

\* lines 123-129 / 257-263: the callback invocations of one push
Callbacks(r, cbThrows) ==
    IF r.err # NoError THEN << [err |-> r.err, outLen |-> -1] >>
    ELSE IF cbThrows
         THEN << [err |-> NoError, outLen |-> r.outLen],
                 [err |-> CallbackThrown, outLen |-> -1] >>
         ELSE << [err |-> NoError, outLen |-> r.outLen] >>

\* ---------------------------------------------------------------- state
\* <<inRate, outRate>>: equal rates, downsampling, upsampling with a remainder
RatePairs == {<<1, 1>>, <<2, 1>>, <<2, 3>>}

\* the quality argument left out by the caller
Undefined == -1

\* qualities given explicitly: one the library accepts, one it does not
ExplicitQuality == 3
InvalidQuality == 11

\* lines 21-25 / 155-159 and 97-103 / 231-237: the constructor's parameters,
\* with the default of the last one
Constructed(channels, inRate, outRate, quality) ==
    [channels |-> channels, inRate |-> inRate, outRate |-> outRate,
     quality |-> IF quality = Undefined THEN DefaultQuality ELSE quality,
     qualityArg |-> quality]

\* every channel count and rate pair with the quality left out, and one
\* configuration with it given
Configs ==
    {Constructed(ch, rp[1], rp[2], Undefined) :
        ch \in 1..MaxChannels, rp \in RatePairs}
    \cup {Constructed(1, 2, 3, ExplicitQuality),
          Constructed(1, 1, 1, InvalidQuality)}

\* the buffer the caller holds on to, with the contents it had when received
NoKept == [held |-> FALSE, buf |-> NoBuffer, seen |-> << >>]

IdleConfig == Constructed(1, 1, 1, Undefined)

\* what the caller of processChunk observes of its result r
Outcome(r) ==
    [err |-> r.err, outLen |-> r.outLen, data |-> BufferContents(r.out, r.heap)]

\* the totals of a stream nothing has been fed to
NoTally == [i \in Instances |-> [fed |-> 0, offered |-> 0, returned |-> 0]]

NoCall ==
    [op |-> "none", inst |-> 0, chunkLen |-> -1, ready |-> FALSE,
     combined |-> << >>, handedLen |-> -1, engineCalls |-> 0,
     err |-> NoError, initErrNum |-> 0, procErrNum |-> 0, outLen |-> -1, written |-> -1,
     out |-> NoBuffer, initCalled |-> FALSE, initArgs |-> NoInitArgs,
     primCalled |-> FALSE, inSamples |-> -1, outCap |-> -1, cb |-> << >>]

Init ==
    /\ variant \in Variants
    /\ cfg \in [Instances -> Configs]
    /\ cfg[2] = IdleConfig
    /\ speexModule = FALSE
    /\ eng = [i \in Instances |-> NewSpeexResampler]
    /\ heap = EmptyHeap
    /\ kept = NoKept
    /\ tally = NoTally
    /\ alignementBuffer = [i \in Instances |-> EMPTY_BUFFER]
    /\ pushed = [i \in Instances |-> << >>]
    /\ handed = [i \in Instances |-> << >>]
    /\ last = NoCall

\* mutant: a later resolution clears the module handle again
ModuleLoaded_Toggle ==
    /\ speexModule' = ~speexModule
    /\ last' = [NoCall EXCEPT !.op = "loaded", !.ready = ~speexModule]
    /\ UNCHANGED <<variant, cfg, eng, heap, alignementBuffer, pushed, handed, kept, tally>>

\* line 12 / 146: the promise of the backing library resolves
ModuleLoaded ==
    /\ ~speexModule
    /\ speexModule' = TRUE
    /\ last' = [NoCall EXCEPT !.op = "loaded", !.ready = TRUE]
    /\ UNCHANGED <<variant, cfg, eng, heap, alignementBuffer, pushed, handed, kept, tally>>

\* lines 107-130 / 241-264: one push through the adapter of instance i
Transform(i, len, initErr, procErr, written, cbThrows) ==
    /\ Len(pushed[i]) + len <= MaxPushed
    /\ \E chunk \in {NewChunk(i, Len(pushed[i]), len)} :
       \E combined \in {Combined(alignementBuffer[i], chunk)} :
       \E toProc \in {ChunkToProcess(variant, cfg[i], combined)} :
       \E r \in {processChunk(variant, cfg[i], eng[i], heap, speexModule,
                              toProc, initErr, procErr, written)} :
           /\ r.heap.nextPtr <= MaxPtr + 1
           /\ Cardinality(Leaked(r.heap, [eng EXCEPT ![i] = r.eng])) <= MaxLeaked
           /\ alignementBuffer' =
                [alignementBuffer EXCEPT ![i] = NextAlignementBuffer(variant, cfg[i], combined)]
           /\ eng' = [eng EXCEPT ![i] = r.eng]
           /\ heap' = r.heap
           /\ pushed' = [pushed EXCEPT ![i] = @ \o chunk]
           /\ handed' = [handed EXCEPT ![i] = @ \o toProc]
           /\ last' = [op |-> "push", inst |-> i, chunkLen |-> len,
                       ready |-> speexModule, combined |-> combined,
                       handedLen |-> Len(toProc), engineCalls |-> 1,
                       err |-> r.err, outLen |-> r.outLen, written |-> r.written,
                       out |-> r.out,
                       initErrNum |-> r.initErrNum, procErrNum |-> r.procErrNum,
                       initCalled |-> r.initCalled, initArgs |-> r.initArgs,
                       primCalled |-> r.primCalled,
                       inSamples |-> r.inSamples, outCap |-> r.outCap,
                       cb |-> Callbacks(r, cbThrows)]
    /\ UNCHANGED <<variant, cfg, speexModule, kept>>

\* lines 37-85 / 171-219: processChunk called directly on the engine of i
ProcessChunkDirect(i, len, initErr, procErr, written) ==
    /\ \E chunk \in {[k \in 1..len |-> 0]} :
       \E r \in {processChunk(variant, cfg[i], eng[i], heap, speexModule,
                              chunk, initErr, procErr, written)} :
           /\ r.heap.nextPtr <= MaxPtr + 1
           /\ Cardinality(Leaked(r.heap, [eng EXCEPT ![i] = r.eng])) <= MaxLeaked
           /\ eng' = [eng EXCEPT ![i] = r.eng]
           /\ heap' = r.heap
           /\ last' = [op |-> "direct", inst |-> i, chunkLen |-> len,
                       ready |-> speexModule, combined |-> << >>,
                       handedLen |-> len, engineCalls |-> 1,
                       err |-> r.err, outLen |-> r.outLen, written |-> r.written,
                       out |-> r.out,
                       initErrNum |-> r.initErrNum, procErrNum |-> r.procErrNum,
                       initCalled |-> r.initCalled, initArgs |-> r.initArgs,
                       primCalled |-> r.primCalled,
                       inSamples |-> r.inSamples, outCap |-> r.outCap,
                       cb |-> << >>]
    /\ UNCHANGED <<variant, cfg, speexModule, alignementBuffer, pushed, handed, kept>>

\* a push of len bytes to instance i, with every outcome the library and the
\* callback may produce
Push(i, len) ==
    \E toProc \in {ChunkToProcess(variant, cfg[i],
                     Combined(alignementBuffer[i], NewChunk(i, Len(pushed[i]), len)))} :
        \E initErr \in InitErrChoices(variant, cfg[i], eng[i], speexModule, toProc) :
        \E procErr \in ProcErrChoices(variant, cfg[i], eng[i], speexModule, toProc, initErr) :
        \E written \in WrittenChoices(variant, cfg[i], eng[i], speexModule, toProc, initErr, procErr) :
        \E cbThrows \in (IF speexModule /\ ~Misaligned(variant, cfg[i], toProc)
                             /\ initErr = 0 /\ procErr = 0
                          THEN BOOLEAN ELSE {FALSE}) :
            /\ Transform(i, len, initErr, procErr, written, cbThrows)
            /\ UNCHANGED tally

\* a direct processChunk call of len bytes on the engine of instance i
Call(i, len) ==
    \E chunk \in {[k \in 1..len |-> 0]} :
        \E initErr \in InitErrChoices(variant, cfg[i], eng[i], speexModule, chunk) :
        \E procErr \in ProcErrChoices(variant, cfg[i], eng[i], speexModule, chunk, initErr) :
        \E written \in WrittenChoices(variant, cfg[i], eng[i], speexModule, chunk, initErr, procErr) :
            /\ ProcessChunkDirect(i, len, initErr, procErr, written)
            /\ UNCHANGED tally

\* the caller feeds a stream to the engine of instance i chunk by chunk and
\* adds up, over the calls that return, the frames given, the frames of
\* capacity the primitive was offered and the frames returned
Feed(i, len) ==
    \E chunk \in {[k \in 1..len |-> 0]} :
        \E initErr \in InitErrChoices(variant, cfg[i], eng[i], speexModule, chunk) :
        \E procErr \in ProcErrChoices(variant, cfg[i], eng[i], speexModule, chunk, initErr) :
        \E written \in WrittenChoices(variant, cfg[i], eng[i], speexModule, chunk, initErr, procErr) :
            /\ ProcessChunkDirect(i, len, initErr, procErr, written)
            /\ tally' = IF last'.err = NoError
                         THEN [tally EXCEPT ![i] =
                                 [fed      |-> @.fed + last'.inSamples,
                                  offered  |-> @.offered + last'.outCap,
                                  returned |-> @.returned + last'.written]]
                         ELSE tally
            /\ tally'[i].fed <= MaxFed

\* the caller keeps the buffer the latest call returned (line 84 / 218:
\* "we are copying the info in a new buffer here")
KeepResult ==
    /\ last.op \in {"push", "direct"}
    /\ last.err = NoError
    /\ last.out.len > 0
    /\ ~kept.held
    /\ kept' = [held |-> TRUE, buf |-> last.out,
                seen |-> BufferContents(last.out, heap)]
    /\ UNCHANGED <<variant, cfg, speexModule, eng, heap, alignementBuffer,
                   pushed, handed, last, tally>>

\* every operation on instance i
Ops(i) ==
    \/ \E len \in 0..MaxChunkLen : Push(i, len)
    \/ \E len \in 0..MaxChunkLen : Call(i, len)

\* one adapter with its engine in use; the second instance is constructed
\* and left idle
Next ==
    \/ ModuleLoaded
    \/ Ops(1)
    \/ KeepResult

Spec == Init /\ [][Next]_vars

\* two adapters with their engines in use side by side: a mono upsampler
\* and a stereo downsampler
InitPair ==
    /\ variant \in Variants
    /\ cfg = [i \in Instances |->
                IF i = 1 THEN Constructed(1, 2, 3, Undefined)
                         ELSE Constructed(2, 2, 1, Undefined)]
    /\ speexModule = FALSE
    /\ eng = [i \in Instances |-> NewSpeexResampler]
    /\ heap = EmptyHeap
    /\ kept = NoKept
    /\ tally = NoTally
    /\ alignementBuffer = [i \in Instances |-> EMPTY_BUFFER]
    /\ pushed = [i \in Instances |-> << >>]
    /\ handed = [i \in Instances |-> << >>]
    /\ last = NoCall

NextPair ==
    \/ ModuleLoaded
    \/ \E i \in Instances : \E len \in 0..MaxChunkLen : Push(i, len)

SpecPair == InitPair /\ [][NextPair]_vars

\* one engine fed a stream of chunks, none of them empty, by a caller that
\* keeps the totals
NextStream ==
    \/ ModuleLoaded
    \/ \E len \in 1..MaxChunkLen : Feed(1, len)

SpecStream == Init /\ [][NextStream]_vars

\* ================================================================ claims
\* a frame as the specification defines it: one sample per channel in the
\* sample width of the build
FrameBytes(i) == cfg[i].channels * EngineSampleWidth(variant)

IsCall == last.op \in {"push", "direct"}

\* C1: every buffer the adapter hands to processChunk has a length that is a
\* multiple of channelCount x sampleByteWidth, and no push fails with the
\* misaligned-chunk error.
C1_AlignmentInvariant ==
    (last.op = "push" /\ last.engineCalls > 0) =>
        /\ last.handedLen % FrameBytes(last.inst) = 0
        /\ last.err # MisalignedMsg

\* C2: the buffers handed to the engine, in call order, followed by the carry
\* are byte for byte the pushed chunks in push order, and the part not handed
\* over is shorter than one frame.
C2_NoDataLoss ==
    \A i \in Instances :
        /\ handed[i] \o alignementBuffer[i] = pushed[i]
        /\ Len(pushed[i]) - Len(handed[i]) <= FrameBytes(i) - 1

C2_Witness ==
    /\ last.op = "push"
    /\ Len(last.combined) > last.chunkLen
    /\ last.chunkLen > 0
    /\ last.handedLen > 0
    /\ Len(alignementBuffer[last.inst]) > 0

\* C3: the carry buffer always holds between 0 and
\* channelCount x sampleByteWidth - 1 bytes.
C3_CarryBound ==
    \A i \in Instances :
        Len(alignementBuffer[i]) \in 0 .. (FrameBytes(i) - 1)

C3_Witness ==
    /\ last.op = "push"
    /\ last.err # NoError
    /\ Len(alignementBuffer[last.inst]) = FrameBytes(last.inst) - 1
    /\ Len(alignementBuffer[last.inst]) > 0
    /\ Len(last.combined) > FrameBytes(last.inst)

\* C4 (as stated): a push whose carry and chunk together are shorter than one
\* frame completes with an empty output, keeps all the bytes in the carry and
\* does not invoke processChunk nor the native primitive.
C4_SubFrameSkipsEngine ==
    (last.op = "push" /\ Len(last.combined) < FrameBytes(last.inst)) =>
        /\ last.cb = << [err |-> NoError, outLen |-> 0] >>
        /\ alignementBuffer[last.inst] = last.combined
        /\ last.engineCalls = 0
        /\ ~last.primCalled

\* C4 (amended): a push that leaves an aligned prefix of length 0 keeps all
\* the combined bytes in the carry and invokes processChunk exactly once, with
\* the empty buffer: NotReady before readiness, never the misaligned error,
\* and when the call succeeds the primitive ran with 0 input samples.
C4_SubFramePush ==
    (last.op = "push" /\ last.handedLen = 0) =>
        /\ alignementBuffer[last.inst] = last.combined
        /\ last.engineCalls = 1
        /\ (~last.ready => last.err = NotReadyMsg)
        /\ (last.ready => last.err # MisalignedMsg)
        /\ (last.err = NoError => last.primCalled /\ last.inSamples = 0)

C4_Witness ==
    /\ last.op = "push"
    /\ last.handedLen = 0
    /\ last.chunkLen > 0
    /\ Len(last.combined) > last.chunkLen
    /\ last.err = NoError
    /\ last.primCalled

C6_NotReadyFailFast ==
    [][ (last'.op \in {"push", "direct"} /\ ~speexModule) =>
          /\ last'.err = NotReadyMsg
          /\ eng' = eng
          /\ heap' = heap
          /\ ~last'.initCalled
          /\ ~last'.primCalled
          /\ (last'.op = "direct" =>
                UNCHANGED <<alignementBuffer, pushed, handed>>) ]_vars

C6_Witness ==
    /\ last.op = "direct"
    /\ ~last.ready
    /\ last.err = NotReadyMsg
    /\ last.chunkLen % FrameBytes(last.inst) # 0

\* C7: readiness is never undone, and once the library is ready no
\* processChunk call fails with the NotReady error.
C7_ReadinessOneShot ==
    [][ speexModule =>
          /\ speexModule'
          /\ (last'.op \in {"push", "direct"} => last'.err # NotReadyMsg) ]_vars

C7_Witness ==
    /\ speexModule
    /\ IsCall
    /\ last.ready
    /\ last.err # NotReadyMsg
    /\ eng[last.inst].resamplerPtr # NullPtr

\* C8: the input scratch size and the output scratch size never decrease from
\* one call to the next.
C8_MonotonicCapacity ==
    [][ \A i \in Instances :
          /\ eng'[i].inBufferSize >= eng[i].inBufferSize
          /\ eng'[i].outBufferSize >= eng[i].outBufferSize ]_vars

\* a successful call with a chunk smaller than the scratch buffers
C8_Witness ==
    /\ IsCall
    /\ last.err = NoError
    /\ last.handedLen < eng[last.inst].inBufferSize
    /\ OutBufferLengthTarget(cfg[last.inst], last.handedLen)
         < eng[last.inst].outBufferSize

\* C9: every push makes exactly one callback invocation, the engine's error
\* unchanged and no output when processChunk threw, the output otherwise, and
\* invokes the engine at most once.
C9_ErrorPropagation ==
    last.op = "push" =>
        /\ Len(last.cb) = 1
        /\ last.engineCalls <= 1
        /\ (last.err # NoError =>
              last.cb[1] = [err |-> last.err, outLen |-> -1])
        /\ (last.err = NoError =>
              last.cb[1] = [err |-> NoError, outLen |-> last.outLen])

\* C10: after a push whose engine call failed, the carry is the trailing
\* (combined length mod frame size) bytes of previous carry ++ chunk.
C10_CarryRetainedOnError ==
    (last.op = "push" /\ last.err # NoError) =>
        alignementBuffer[last.inst] =
            Slice(last.combined,
                  Len(last.combined) - (Len(last.combined) % FrameBytes(last.inst)),
                  Len(last.combined))

\* C11: a successful processChunk returns exactly
\* written x channelCount x sampleByteWidth bytes, written being the count the
\* primitive reported: a whole number of frames, at most the output scratch size.
C11_OutputSize ==
    (IsCall /\ last.err = NoError) =>
        /\ last.outLen = last.written * cfg[last.inst].channels
                           * EngineSampleWidth(variant)
        /\ last.outLen % FrameBytes(last.inst) = 0
        /\ last.outLen <= eng[last.inst].outBufferSize

\* a success with output, less than the capacity offered
C11_Witness ==
    /\ IsCall
    /\ last.err = NoError
    /\ last.written > 0
    /\ last.written < last.outCap

\* C12: the contents of a buffer returned by processChunk are unchanged by
\* every later call, also by calls that overwrite or reallocate the output
\* scratch.
C12_ReturnedCopy ==
    kept.held => BufferContents(kept.buf, heap) = kept.seen

\* the output scratch the kept buffer was read from has since been given back
\* or overwritten
C12_Witness ==
    /\ kept.held
    /\ IsCall
    /\ last.err = NoError
    /\ last.outLen > 0
    /\ last.out # kept.buf

\* a step that is a call on instance i: last' describes it, and neither the
\* library handle nor the kept result changes
CallStep(i) ==
    /\ last'.op \in {"push", "direct"}
    /\ last'.inst = i
    /\ speexModule' = speexModule
    /\ kept' = kept

\* C13: constructing creates no native resampler; the creation primitive is
\* called exactly by a processChunk call that passes the readiness and
\* alignment checks on an engine without a handle, with the configured
\* channels, rates and quality (7 when none was given); when it reports a
\* non-zero code the call fails with the library's string for that code,
\* leaves both scratch buffers as they were and does not call the processing
\* primitive.
C13_LazyInit ==
    [][ \A i \in Instances :
          /\ last.op \in {"none", "loaded"} =>
                /\ eng[i].resamplerPtr = NullPtr
                /\ DOMAIN heap.live = {}
          /\ CallStep(i) =>
                /\ last'.initCalled <=>
                      /\ speexModule
                      /\ last'.handedLen % FrameBytes(i) = 0
                      /\ eng[i].resamplerPtr = NullPtr
                /\ last'.initCalled =>
                      last'.initArgs =
                          <<cfg[i].channels, cfg[i].inRate, cfg[i].outRate,
                            IF cfg[i].qualityArg = Undefined
                            THEN 7 ELSE cfg[i].qualityArg>>
                /\ (last'.initCalled /\ last'.initErrNum # 0) =>
                      /\ last'.err = speex_resampler_strerror(last'.initErrNum)
                      /\ last'.err # NoError
                      /\ last'.outLen = -1
                      /\ ~last'.primCalled
                      /\ eng'[i].inBufferSize = eng[i].inBufferSize
                      /\ eng'[i].outBufferSize = eng[i].outBufferSize
                      /\ eng'[i].inBufferPtr = eng[i].inBufferPtr
                      /\ eng'[i].outBufferPtr = eng[i].outBufferPtr
                /\ (last'.initCalled /\ last'.initErrNum = 0) =>
                      eng'[i].resamplerPtr # NullPtr ]_vars

\* a creation with an explicit quality has failed
C13_Witness ==
    /\ IsCall
    /\ last.initCalled
    /\ last.initErrNum # 0
    /\ last.chunkLen > 0
    /\ cfg[last.inst].qualityArg # Undefined

\* the handle, both length cells and both scratch buffers of engine e are
\* live blocks of heap h, the scratch blocks of the recorded sizes
ValidEngine(e, h) ==
    /\ e.resamplerPtr # NullPtr
    /\ {e.resamplerPtr, e.inLengthPtr, e.outLengthPtr,
         e.inBufferPtr, e.outBufferPtr} \subseteq DOMAIN h.live
    /\ h.live[e.inBufferPtr] = e.inBufferSize
    /\ h.live[e.outBufferPtr] = e.outBufferSize

\* C14: when the processing primitive returns a non-zero code the call fails
\* with the library's string for that code and returns no output; the engine
\* keeps the handle it had when the primitive ran, its scratch buffers are
\* live and no smaller than before the call, and a following call with a
\* chunk of one frame can run the primitive on the same handle and succeed.
C14_ProcessingErrorConsistent ==
    [][ \A i \in Instances :
          (CallStep(i) /\ last'.primCalled /\ last'.procErrNum # 0) =>
                /\ last'.err = speex_resampler_strerror(last'.procErrNum)
                /\ last'.err # NoError
                /\ last'.outLen = -1
                /\ last'.out = NoBuffer
                /\ (~last'.initCalled =>
                        eng'[i].resamplerPtr = eng[i].resamplerPtr)
                /\ ValidEngine(eng'[i], heap')
                /\ eng'[i].inBufferSize >= eng[i].inBufferSize
                /\ eng'[i].outBufferSize >= eng[i].outBufferSize
                /\ \E len \in {FrameBytes(i)} :
                   \E next \in {processChunk(variant, cfg[i], eng'[i], heap',
                                             speexModule, [k \in 1..len |-> 0],
                                             0, 0, 0)} :
                       /\ next.err = NoError
                       /\ next.primCalled
                       /\ ~next.initCalled
                       /\ next.eng.resamplerPtr = eng'[i].resamplerPtr ]_vars

\* a processing error on an engine that had already grown its scratch
\* buffers for a shorter chunk
C14_Witness ==
    /\ IsCall
    /\ last.primCalled
    /\ last.procErrNum # 0
    /\ ~last.initCalled
    /\ last.handedLen > 0
    /\ eng[last.inst].inBufferSize = last.handedLen
    /\ heap.freed # {}

\* the heap as engine e has it to itself: only the blocks it points to
OwnHeap(h, e) ==
    [live    |-> [p \in DOMAIN h.live \cap Owned(e) |-> h.live[p]],
     bytes   |-> [p \in DOMAIN h.live \cap Owned(e) |-> h.bytes[p]],
     freed   |-> {},
     nextPtr |-> h.nextPtr]

\* the buffer the call described by c gave to processChunk of instance i
HandedChunk(i, c) ==
    IF c.op = "push" THEN ChunkToProcess(variant, cfg[i], c.combined)
    ELSE [k \in 1..c.chunkLen |-> 0]

\* the sizes and the set pointers of engine e, whatever the addresses
Shape(e) ==
    [handle  |-> e.resamplerPtr # NullPtr,
     cells   |-> e.inLengthPtr # UnsetPtr /\ e.outLengthPtr # UnsetPtr,
     inSize  |-> e.inBufferSize,
     outSize |-> e.outBufferSize]

\* C15: a call on one instance leaves the other instance's engine fields,
\* carry, stream and heap blocks as they were, and its outcome and the sizes
\* it leaves are those of the same call made with the instance alone on the
\* heap; the instances share only the library handle and the heap behind it.
C15_IndependentInstances ==
    [][ \A i \in Instances : CallStep(i) =>
          /\ \A j \in Instances \ {i} :
                /\ eng'[j] = eng[j]
                /\ alignementBuffer'[j] = alignementBuffer[j]
                /\ pushed'[j] = pushed[j]
                /\ handed'[j] = handed[j]
                /\ \A p \in Owned(eng[j]) \cap DOMAIN heap.live :
                      /\ p \in DOMAIN heap'.live
                      /\ heap'.live[p] = heap.live[p]
                      /\ heap'.bytes[p] = heap.bytes[p]
                /\ Owned(eng'[i]) \cap Owned(eng[j]) \subseteq {UnsetPtr, NullPtr}
          /\ cfg' = cfg /\ variant' = variant
          /\ \E solo \in {processChunk(variant, cfg[i], eng[i],
                                        OwnHeap(heap, eng[i]), speexModule,
                                        HandedChunk(i, last'),
                                        last'.initErrNum, last'.procErrNum,
                                        IF last'.written < 0 THEN 0
                                        ELSE last'.written)} :
                /\ Outcome(solo) =
                      [err |-> last'.err, outLen |-> last'.outLen,
                       data |-> BufferContents(last'.out, heap')]
                /\ Shape(solo.eng) = Shape(eng'[i]) ]_vars

\* both instances hold a handle and scratch buffers with bytes in them, and
\* the latest push returned output and kept a carry
C15_Witness ==
    /\ \A i \in Instances :
          /\ eng[i].resamplerPtr # NullPtr
          /\ eng[i].outBufferSize > 0
          /\ Len(handed[i]) > 0
    /\ last.op = "push"
    /\ last.err = NoError
    /\ last.outLen > 0
    /\ Len(alignementBuffer[last.inst]) > 0

\* C16: over a stream of T frames fed to one engine in aligned chunks of any
\* sizes, the frames returned total T x outRate / inRate within one frame.  A
\* call returns at most the capacity it offers the primitive, so the
\* capacities offered over the stream have to reach T x outRate / inRate - 1.
C16_RateConvergence ==
    \A i \in Instances :
        /\ tally[i].returned <= tally[i].offered
        /\ tally[i].offered * cfg[i].inRate
              >= tally[i].fed * cfg[i].outRate - cfg[i].inRate

\* C18: after every push the carry is the trailing e bytes of previous carry
\* ++ chunk, e being the combined length mod channelCount x sampleByteWidth,
\* and the engine was handed the prefix before them; so the carry length is
\* always the number of bytes pushed so far mod channelCount x
\* sampleByteWidth, in the float32 build as in the int16 build.
C18_CarryStateMachine ==
    /\ last.op = "push" =>
          LET i == last.inst
              n == Len(last.combined)
              e == n % FrameBytes(i)
          IN  /\ alignementBuffer[i] = Slice(last.combined, n - e, n)
              /\ last.handedLen = n - e
              /\ Slice(handed[i], Len(handed[i]) - last.handedLen, Len(handed[i]))
                    = Slice(last.combined, 0, n - e)
              /\ (alignementBuffer[i] = EMPTY_BUFFER) <=> (e = 0)
    /\ \A i \in Instances :
          Len(alignementBuffer[i]) = Len(pushed[i]) % FrameBytes(i)

Max(a, b) == IF a < b THEN b ELSE a

\* C19: a call that reaches the resize steps leaves the input scratch size at
\* the larger of its former size and the chunk's length, and the output
\* scratch size at the larger of its former size and
\* ceil(length x outRate / inRate): the largest seen over the calls so far,
\* the sizes being unset before the first; a scratch buffer is replaced
\* exactly when its size was strictly smaller than the call needs, and a
\* call that does not reach the resize steps leaves both as they were.
C19_ScratchSizing ==
    [][ \A i \in Instances :
          /\ last.op = "none" =>
                /\ eng[i].inBufferSize = UnsetSize
                /\ eng[i].outBufferSize = UnsetSize
          /\ CallStep(i) =>
                LET len    == last'.handedLen
                    target == CeilDiv(len * cfg[i].outRate, cfg[i].inRate)
                IN  IF last'.primCalled
                    THEN /\ eng'[i].inBufferSize = Max(eng[i].inBufferSize, len)
                         /\ eng'[i].outBufferSize
                               = Max(eng[i].outBufferSize, target)
                         /\ eng'[i].inBufferSize >= len
                         /\ eng'[i].outBufferSize >= target
                         /\ (eng'[i].inBufferPtr # eng[i].inBufferPtr)
                               <=> (eng[i].inBufferSize < len)
                         /\ (eng'[i].outBufferPtr # eng[i].outBufferPtr)
                               <=> (eng[i].outBufferSize < target)
                         /\ heap'.live[eng'[i].inBufferPtr] = eng'[i].inBufferSize
                         /\ heap'.live[eng'[i].outBufferPtr] = eng'[i].outBufferSize
                    ELSE /\ eng'[i].inBufferSize = eng[i].inBufferSize
                         /\ eng'[i].outBufferSize = eng[i].outBufferSize
                         /\ eng'[i].inBufferPtr = eng[i].inBufferPtr
                         /\ eng'[i].outBufferPtr = eng[i].outBufferPtr ]_vars

\* a call reaches the resize steps with a chunk shorter than an earlier one,
\* after a scratch buffer has been replaced
C19_Witness ==
    /\ IsCall
    /\ last.primCalled
    /\ last.handedLen > 0
    /\ last.handedLen < eng[last.inst].inBufferSize
    /\ heap.freed # {}

\* C20: on every call that reaches the primitive, the input count passed is
\* length / channelCount / sampleByteWidth, a whole number whose bytes are the
\* chunk copied into the input scratch and fit in it; the output capacity
\* passed is the output scratch size / channelCount / sampleByteWidth cut to
\* an integer, whose bytes fit in the output scratch; both scratch blocks are
\* live and of the recorded sizes.
C20_PrimitiveArguments ==
    (IsCall /\ last.primCalled) =>
        LET i == last.inst
            e == eng[i]
            f == cfg[i].channels * EngineSampleWidth(variant)
        IN  /\ last.inSamples * f = last.handedLen
            /\ last.inSamples >= 0
            /\ last.handedLen <= e.inBufferSize
            /\ last.outCap >= 0
            /\ last.outCap * f <= e.outBufferSize
            /\ (last.outCap + 1) * f > e.outBufferSize
            /\ e.inBufferPtr \in DOMAIN heap.live
            /\ e.outBufferPtr \in DOMAIN heap.live
            /\ heap.live[e.inBufferPtr] = e.inBufferSize
            /\ heap.live[e.outBufferPtr] = e.outBufferSize
            /\ e.inBufferPtr # e.outBufferPtr
            /\ (last.err = NoError => last.written <= last.outCap)

\* the primitive was offered a capacity cut down from an output scratch that
\* is not a whole number of frames
C20_Witness ==
    /\ IsCall
    /\ last.primCalled
    /\ last.inSamples > 0
    /\ last.outCap > 0
    /\ eng[last.inst].outBufferSize % FrameBytes(last.inst) # 0

\* C21: on every call that reaches the primitive with n input frames per
\* channel, the output capacity offered is at least
\* ceil(n x outRate / inRate) frames, so that the primitive never has to
\* leave input unconsumed.
C21_CapacityConsumesChunk ==
    (IsCall /\ last.primCalled) =>
        last.outCap >= CeilDiv(last.inSamples * cfg[last.inst].outRate,
                               cfg[last.inst].inRate)

\* C22: once the creation primitive has succeeded for an engine, no later
\* call creates again and the handle and the length cells stay the same; no
\* operation changes a configuration; and the processing primitive runs only
\* with a handle that a successful creation returned, this call's or an
\* earlier one's, and with both length cells allocated.
C22_SingleHandle ==
    [][ /\ cfg' = cfg
        /\ variant' = variant
        /\ \A i \in Instances :
              /\ eng[i].resamplerPtr # NullPtr =>
                    /\ eng'[i].resamplerPtr = eng[i].resamplerPtr
                    /\ eng'[i].inLengthPtr = eng[i].inLengthPtr
                    /\ eng'[i].outLengthPtr = eng[i].outLengthPtr
                    /\ (CallStep(i) => ~last'.initCalled)
              /\ (CallStep(i) /\ last'.primCalled) =>
                    /\ eng'[i].resamplerPtr # NullPtr
                    /\ \/ eng'[i].resamplerPtr = eng[i].resamplerPtr
                       \/ /\ eng[i].resamplerPtr = NullPtr
                          /\ last'.initCalled
                          /\ last'.initErrNum = 0
                    /\ {eng'[i].resamplerPtr, eng'[i].inLengthPtr,
                         eng'[i].outLengthPtr} \subseteq DOMAIN heap'.live
                    /\ eng'[i].inLengthPtr # eng'[i].outLengthPtr
                    /\ heap'.live[eng'[i].inLengthPtr] = Uint32BytesPerElement
                    /\ heap'.live[eng'[i].outLengthPtr] = Uint32BytesPerElement
              /\ (CallStep(i) /\ last'.initCalled /\ last'.initErrNum # 0) =>
                    eng'[i].resamplerPtr = NullPtr ]_vars

\* the primitive runs on a handle made by an earlier call, which succeeded
\* after a creation that had failed
C22_Witness ==
    /\ IsCall
    /\ last.primCalled
    /\ ~last.initCalled
    /\ last.err = NoError
    /\ eng[last.inst].resamplerPtr # NullPtr
    /\ Cardinality(Leaked(heap, eng)) = 2

\* C23: every block that is allocated and not freed is one the engine
\* points to: its handle, its two length cells and its two scratch blocks;
\* the scratch blocks the engine points to are live and were never freed.
C23_MemoryAccounted ==
    /\ Leaked(heap, eng) = {}
    /\ DOMAIN heap.live \cap heap.freed = {}
    /\ \A i \in Instances :
          /\ {eng[i].inBufferPtr, eng[i].outBufferPtr} \ {UnsetPtr}
                \subseteq DOMAIN heap.live \ heap.freed
          /\ (eng[i].inBufferPtr # UnsetPtr /\ eng[i].outBufferPtr # UnsetPtr)
                => eng[i].inBufferPtr # eng[i].outBufferPtr

====
